---- MODULE Spec2Model ----
(***************************************************************************)
(* Worker pool of the RuvLTRA MCP server (workers/worker-pool.ts): bounded *)
(* queue, dispatch to idle workers, per-task timeout and cancellation,     *)
(* auto-scaling and shutdown.  One action per public operation, timer or   *)
(* promise callback of the pool.  Second part: the inference engine of one *)
(* worker (ruvllm/inference-engine.ts): ranked backend fallback, HTTP      *)
(* retry loop and circuit breaker, one action per suspension point of      *)
(* generate().                                                             *)
(***************************************************************************)
EXTENDS Integers, Sequences, FiniteSets, TLC

\* ---------------------------------------------------------------- bounds
MaxTasks == 3            \* admitted tasks per run
MaxRejected == 1         \* rejected submissions per run
MaxShutdowns == 1        \* shutdown() calls per run
MaxCreatedWorkers == 2   \* workers ever created per run
MaxTicks == 1            \* clock advances per run
TickMs == 25000          \* granularity of the clock
MaxUntimed == 1          \* admitted tasks per run whose timeoutMs is not positive
CfgMaxWorkers == 2       \* largest RUVLTRA_MAX_WORKERS tried
CfgQueueMaxLength == 2   \* largest RUVLTRA_QUEUE_MAX_LENGTH tried
sonaPersistInterval == 2 \* RUVLTRA_SONA_PERSIST_INTERVAL of the runs
MaxCalls == 4            \* generate() calls per engine run
MaxEngineTicks == 3      \* clock advances per engine run
EngineTickMs == 500      \* granularity of the clock of an engine run
MaxHttpRetries == 1      \* largest RUVLTRA_HTTP_MAX_RETRIES tried
MaxFailureThreshold == 2 \* largest RUVLTRA_HTTP_CIRCUIT_FAILURE_THRESHOLD tried
CooldownMs == 1000       \* RUVLTRA_HTTP_CIRCUIT_COOLDOWN_MS of the runs
MaxSonaOps == 2          \* recordInteraction and flush calls per memory run
MaxRestarts == 1         \* restarts of the worker per memory run
MaxSonaTicks == 1        \* clock advances per memory run
SonaTickMs == 1860000    \* granularity of the clock of a memory run (31 minutes)
MaxFileEntries == 2      \* longest patterns array of a hand-written state file
MaxOverflow == 1         \* patterns above MAX_PATTERNS in the largest state file

\* ------------------------------------------------------ program constants
taskTimeoutMs == 60000
scaleDownIdleMs == 20000
CONSOLIDATE_INTERVAL == 20
MAX_PATTERNS == 600
WorkersFloor == 1
WorkersCeiling == 32
QueueCeiling == 50000

None == 0
\* Fractions (score, importance, quality) are counted in units of 1/Unit.
Unit == 10000
\* An optional number: <<>> when the field is absent, <<n>> when it is n.
Undefined == <<>>

TaskIds == 1..MaxTasks

VARIABLES config, now, pool, shutdownCalls, engine, call, sona, disk

vars == <<config, now, pool, shutdownCalls, engine, call, sona, disk>>

\* The state of one InferenceEngine and of its generate() call in progress.
engineVars == <<engine, call>>

\* The state of one SonaEngine and the content of its state file.
sonaVars == <<sona, disk>>

\* ------------------------------------------------------------- helpers
clamp(value, min, max) ==
  LET lower == IF value > min THEN value ELSE min
  IN IF lower < max THEN lower ELSE max

\* loadServerConfig: the worker sizing normalisation.
loadServerConfig(env) ==
  LET minWorkers == clamp(env.minWorkers, WorkersFloor, WorkersCeiling)
      maxWorkers == clamp(env.maxWorkers, minWorkers, WorkersCeiling)
      initialWorkers == clamp(env.initialWorkers, minWorkers, maxWorkers)
      queueMaxLength == clamp(env.queueMaxLength, maxWorkers, QueueCeiling)
  IN [minWorkers |-> minWorkers, maxWorkers |-> maxWorkers,
      initialWorkers |-> initialWorkers, queueMaxLength |-> queueMaxLength,
      forceSingleLlamaWorker |-> env.forceSingleLlamaWorker]

Configs ==
  { loadServerConfig(env) :
      env \in [minWorkers : {1}, maxWorkers : 1..CfgMaxWorkers,
               initialWorkers : {1},
               queueMaxLength : 1..CfgQueueMaxLength,
               forceSingleLlamaWorker : BOOLEAN] }

effectiveMinWorkers == IF config.forceSingleLlamaWorker THEN 1 ELSE config.minWorkers
effectiveMaxWorkers == IF config.forceSingleLlamaWorker THEN 1 ELSE config.maxWorkers

\* SonaEngine.flush: the snapshot takes the in-memory counters.
SonaFlush(n) == [n EXCEPT !.sonaPersisted = n.sonaInteractions]

\* SonaEngine.recordInteraction, as far as the counters go.
SonaRecordInteraction(n) ==
  LET n1 == [n EXCEPT !.sonaInteractions = @ + 1]
      n2 == IF n1.sonaInteractions % CONSOLIDATE_INTERVAL = 0 THEN SonaFlush(n1) ELSE n1
  IN IF n2.sonaInteractions % sonaPersistInterval = 0 THEN SonaFlush(n2) ELSE n2

NewNode ==
  [activeTasks |-> 0, completedTasks |-> 0, failedTasks |-> 0,
   lastUsedAt |-> now, sonaInteractions |-> 0, sonaPersisted |-> 0,
   engineShutdown |-> FALSE]

createWorker(s) ==
  LET id == s.createdWorkers + 1
  IN [s EXCEPT !.createdWorkers = id,
               !.node = @ @@ (id :> NewNode),
               !.workers = Append(@, id)]

RECURSIVE createWorkers(_, _)
createWorkers(s, count) ==
  IF count <= 0 THEN s ELSE createWorkers(createWorker(s), count - 1)

RemoveAt(seq, index) ==
  [i \in 1..(Len(seq) - 1) |-> IF i < index THEN seq[i] ELSE seq[i + 1]]

IndexOf(seq, x) ==
  IF \E i \in 1..Len(seq) : seq[i] = x
  THEN CHOOSE i \in 1..Len(seq) : seq[i] = x /\ \A j \in 1..(i - 1) : seq[j] # x
  ELSE 0

\* removeWorker that lets the worker go without a last flush.
removeWorker_NoFlush(s, worker) ==
  LET index == IndexOf(s.workers, worker)
  IN IF index = 0 THEN s
     ELSE [s EXCEPT !.workers = RemoveAt(@, index),
                    !.node[worker].engineShutdown = TRUE]

removeWorker(s, worker) ==
  LET index == IndexOf(s.workers, worker)
  IN IF index = 0 THEN s
     ELSE [s EXCEPT !.workers = RemoveAt(@, index),
                    !.node[worker] = [SonaFlush(@) EXCEPT !.engineShutdown = TRUE]]

\* First element of workers.filter(pred).sort(by lastUsedAt): the sort is
\* stable, so ties keep the order of the workers array.
LeastRecentlyUsed(s, candidates) ==
  IF candidates = {} THEN None
  ELSE LET i == CHOOSE i \in candidates :
                  \A j \in candidates :
                    \/ s.node[s.workers[i]].lastUsedAt < s.node[s.workers[j]].lastUsedAt
                    \/ /\ s.node[s.workers[i]].lastUsedAt = s.node[s.workers[j]].lastUsedAt
                       /\ i <= j
       IN s.workers[i]

\* Mutant: pickAvailableWorker without the activeTasks filter.
pickAvailableWorker_AnyWorker(s) ==
  LeastRecentlyUsed(s, 1..Len(s.workers))

pickAvailableWorker(s) ==
  LeastRecentlyUsed(s, {i \in 1..Len(s.workers) : s.node[s.workers[i]].activeTasks = 0})

\* ------------------------------------------------------------ settlement
clearTimeout(it) == IF it.timeoutHandle = "armed" THEN [it EXCEPT !.timeoutHandle = "cleared"] ELSE it

finishWithSuccess(s, t) ==
  IF s.item[t].settled THEN s
  ELSE [s EXCEPT !.item[t] = [clearTimeout(@) EXCEPT !.settled = TRUE,
                                                     !.outcome = "Success",
                                                     !.settleCalls = @ + 1]]

\* Mutant: finishWithError without the `settled` latch.
finishWithError_NoLatch(s, t, error) ==
  [s EXCEPT !.item[t] = [clearTimeout(@) EXCEPT !.settled = TRUE,
                                                !.outcome = error,
                                                !.settleCalls = @ + 1]]

finishWithError(s, t, error) ==
  IF s.item[t].settled THEN s
  ELSE [s EXCEPT !.item[t] = [clearTimeout(@) EXCEPT !.settled = TRUE,
                                                     !.outcome = error,
                                                     !.settleCalls = @ + 1]]

\* removeFromQueue that leaves the queue as it is.
removeFromQueue_Keeps(s, t) == s

removeFromQueue(s, t) ==
  LET index == IndexOf(s.queue, t)
  IN IF index > 0 THEN [s EXCEPT !.queue = RemoveAt(@, index)] ELSE s

\* Mutant: cancelTask that only knows pending tasks.
cancelTask_PendingOnly(s, t, reason) ==
  IF t \in s.pendingByTaskId
  THEN LET s1 == [s EXCEPT !.cancelledTasks = @ + 1,
                           !.pendingByTaskId = @ \ {t}]
           s2 == removeFromQueue(s1, t)
           s3 == [s2 EXCEPT !.item[t].aborted = TRUE]
       IN finishWithError(s3, t, reason)
  ELSE s

cancelTask(s, t, reason) ==
  IF t \in s.pendingByTaskId
  THEN LET s1 == [s EXCEPT !.cancelledTasks = @ + 1,
                           !.pendingByTaskId = @ \ {t}]
           s2 == removeFromQueue(s1, t)
           s3 == [s2 EXCEPT !.item[t].aborted = TRUE]
       IN finishWithError(s3, t, reason)
  ELSE IF t \in s.runningByTaskId
  THEN LET s1 == [s EXCEPT !.cancelledTasks = @ + 1,
                           !.item[t].aborted = TRUE]
       IN finishWithError(s1, t, reason)
  ELSE s

\* -------------------------------------------------------------- dispatch
runOnWorker(s, worker, t) ==
  [s EXCEPT !.item[t].started = TRUE,
            !.item[t].call = "inflight",
            !.item[t].worker = worker,
            !.pendingByTaskId = @ \ {t},
            !.runningByTaskId = @ \cup {t},
            !.node[worker].activeTasks = @ + 1,
            !.node[worker].lastUsedAt = now,
            !.inFlight = @ + 1]

\* A dispatch that serves the task submitted last.
RECURSIVE dispatch_NewestFirst(_)
dispatch_NewestFirst(s) ==
  IF Len(s.queue) = 0 THEN s
  ELSE LET worker == pickAvailableWorker(s)
       IN IF worker = None THEN s
          ELSE LET nextItem == s.queue[Len(s.queue)]
                   s1 == [s EXCEPT !.queue = SubSeq(@, 1, Len(@) - 1)]
               IN IF s1.item[nextItem].settled THEN dispatch_NewestFirst(s1)
                  ELSE dispatch_NewestFirst(runOnWorker(s1, worker, nextItem))

RECURSIVE dispatch(_)
dispatch(s) ==
  IF Len(s.queue) = 0 THEN s
  ELSE LET worker == pickAvailableWorker(s)
       IN IF worker = None THEN s
          ELSE LET nextItem == Head(s.queue)
                   s1 == [s EXCEPT !.queue = Tail(@)]
               IN IF s1.item[nextItem].settled THEN dispatch(s1)
                  ELSE dispatch(runOnWorker(s1, worker, nextItem))

\* maybeScaleUp without the ceiling test.
maybeScaleUp_NoCeiling(s) ==
  IF Len(s.queue) > Len(s.workers) THEN createWorker(s) ELSE s

\* maybeScaleUp that grows the pool as soon as the queue is as long as the pool.
maybeScaleUp_Eager(s) ==
  IF Len(s.queue) >= Len(s.workers) /\ Len(s.workers) < effectiveMaxWorkers
  THEN createWorker(s)
  ELSE s

maybeScaleUp(s) ==
  IF Len(s.queue) > Len(s.workers) /\ Len(s.workers) < effectiveMaxWorkers
  THEN createWorker(s)
  ELSE s

maybeScaleDown(s) ==
  IF Len(s.workers) <= effectiveMinWorkers THEN s
  ELSE LET removable ==
             LeastRecentlyUsed(s, {i \in 1..Len(s.workers) :
                                     /\ s.node[s.workers[i]].activeTasks = 0
                                     /\ now - s.node[s.workers[i]].lastUsedAt > scaleDownIdleMs})
       IN IF removable = None THEN s ELSE removeWorker(s, removable)

\* ------------------------------------------------------------- admission
NewItem(timeoutMs) ==
  [settled |-> FALSE, timedOut |-> FALSE, started |-> FALSE, aborted |-> FALSE,
   timeoutHandle |-> IF timeoutMs > 0 THEN "armed" ELSE "none",
   outcome |-> "none", settleCalls |-> 0, call |-> "none", worker |-> None]

\* Mutant: the overflow check off by one.
QueueIsFull_OffByOne(s) == Len(s.queue) > config.queueMaxLength

\* Mutant: the overflow check counting in-flight tasks too.
QueueIsFull_CountsInFlight(s) == Len(s.queue) + s.inFlight >= config.queueMaxLength

QueueIsFull(s) == Len(s.queue) >= config.queueMaxLength

\* executeTask past the overflow check.
admit(s, requestTimeoutMs) ==
  LET taskId == s.taskCounter + 1
      timeoutMs == IF requestTimeoutMs = Undefined THEN taskTimeoutMs ELSE requestTimeoutMs[1]
      s1 == [s EXCEPT !.taskCounter = taskId,
                      !.submittedTasks = @ + 1,
                      !.item = @ @@ (taskId :> NewItem(timeoutMs)),
                      !.pendingByTaskId = @ \cup {taskId},
                      !.queue = Append(@, taskId)]
  IN dispatch(maybeScaleUp(s1))

executeTask(s, requestTimeoutMs) ==
  IF QueueIsFull(s)
  THEN [s EXCEPT !.rejectedTasks = @ + 1]
  ELSE admit(s, requestTimeoutMs)

\* A timeout that takes another unfinished task down with its own.
timeoutCallback_CancelsSibling(s, t) ==
  LET s1 == [s EXCEPT !.timedOutTasks = @ + 1,
                      !.item[t].timedOut = TRUE,
                      !.item[t].timeoutHandle = "fired"]
      siblings == (s.pendingByTaskId \cup s.runningByTaskId) \ {t}
  IN IF siblings = {} THEN cancelTask(s1, t, "Timeout")
     ELSE cancelTask(cancelTask(s1, t, "Timeout"), CHOOSE u \in siblings : TRUE, "Timeout")

\* The setTimeout callback armed by executeTask.
timeoutCallback(s, t) ==
  LET s1 == [s EXCEPT !.timedOutTasks = @ + 1,
                      !.item[t].timedOut = TRUE,
                      !.item[t].timeoutHandle = "fired"]
  IN cancelTask(s1, t, "Timeout")

\* ------------------------------------------- promise chain of runOnWorker
\* Mutant: the fulfilment callback without its `settled` check.
onFulfilled_NoSettledCheck(s, t) ==
  LET worker == s.item[t].worker
      s1 == [s EXCEPT !.node[worker] =
                SonaRecordInteraction([@ EXCEPT !.completedTasks = @ + 1])]
  IN finishWithSuccess(s1, t)

onFulfilled(s, t) ==
  IF s.item[t].settled THEN s
  ELSE LET worker == s.item[t].worker
           s1 == [s EXCEPT !.node[worker] =
                     SonaRecordInteraction([@ EXCEPT !.completedTasks = @ + 1])]
       IN finishWithSuccess(s1, t)

onRejected(s, t, error) ==
  IF s.item[t].settled THEN s
  ELSE LET worker == s.item[t].worker
           s1 == IF error \notin {"Cancelled", "Timeout"}
                 THEN [s EXCEPT !.node[worker].failedTasks = @ + 1,
                                !.failedTasks = @ + 1]
                 ELSE [s EXCEPT !.cancelledTasks = @ + 1]
           s2 == [s1 EXCEPT !.node[worker] = SonaRecordInteraction(@)]
       IN finishWithError(s2, t, error)

onFinally(s, t) ==
  LET worker == s.item[t].worker
      s1 == [s EXCEPT !.node[worker].activeTasks = @ - 1,
                      !.node[worker].lastUsedAt = now,
                      !.inFlight = @ - 1,
                      !.runningByTaskId = @ \ {t},
                      !.item[t].call = "ended"]
  IN dispatch(maybeScaleDown(s1))

\* ------------------------------------------------------- scale, shutdown
RECURSIVE removeIdle(_, _)
removeIdle(s, desired) ==
  LET node == LeastRecentlyUsed(s, {i \in 1..Len(s.workers) :
                                      s.node[s.workers[i]].activeTasks = 0})
  IN IF Len(s.workers) > desired /\ node # None
     THEN removeIdle(removeWorker(s, node), desired)
     ELSE s

\* scaleWorkers that drops the newest workers whatever they are doing.
scaleWorkers_RemovesBusy(s, target) ==
  LET desired == clamp(target, effectiveMinWorkers, effectiveMaxWorkers)
  IN IF desired > Len(s.workers) THEN createWorkers(s, desired - Len(s.workers))
     ELSE [s EXCEPT !.workers = SubSeq(@, 1, desired)]

scaleWorkers(s, target) ==
  LET desired == clamp(target, effectiveMinWorkers, effectiveMaxWorkers)
  IN IF desired > Len(s.workers) THEN createWorkers(s, desired - Len(s.workers))
     ELSE IF desired < Len(s.workers) THEN removeIdle(s, desired)
     ELSE s

RECURSIVE finishAll(_, _)
finishAll(s, items) ==
  IF items = {} THEN s
  ELSE LET t == CHOOSE t \in items : TRUE
       IN finishAll(finishWithError(s, t, "Cancelled"), items \ {t})

\* Mutant: shutdown that cancels the pending tasks only.
shutdown_PendingOnly(s) ==
  LET s1 == finishAll([s EXCEPT !.scaleDownTimer = FALSE], s.pendingByTaskId)
  IN [s1 EXCEPT !.pendingByTaskId = {},
                !.runningByTaskId = {},
                !.queue = <<>>,
                !.node = [w \in DOMAIN @ |->
                            IF \E i \in 1..Len(s1.workers) : s1.workers[i] = w
                            THEN [SonaFlush(@[w]) EXCEPT !.engineShutdown = TRUE]
                            ELSE @[w]]]

shutdown(s) ==
  LET s1 == finishAll([s EXCEPT !.scaleDownTimer = FALSE],
                      s.pendingByTaskId \cup s.runningByTaskId)
  IN [s1 EXCEPT !.pendingByTaskId = {},
                !.runningByTaskId = {},
                !.queue = <<>>,
                !.node = [w \in DOMAIN @ |->
                            IF \E i \in 1..Len(s1.workers) : s1.workers[i] = w
                            THEN [SonaFlush(@[w]) EXCEPT !.engineShutdown = TRUE]
                            ELSE @[w]]]

\* ------------------------------------------------------------------------
\* The inference engine of one worker (ruvllm/inference-engine.ts)
\* ------------------------------------------------------------------------
BACKEND_ORDER == <<"http", "llama", "ruvllm", "mock">>

Backends == {"http", "llama", "ruvllm", "mock"}

\* x ?? 0 of an optional number.
OrZero(x) == IF x = Undefined THEN 0 ELSE x[1]

\* The HTTP settings of loadServerConfig; httpEndpoint says whether
\* RUVLTRA_HTTP_ENDPOINT is set.
EngineConfigs ==
  [httpEndpoint : BOOLEAN,
   httpMaxRetries : 0..MaxHttpRetries,
   httpCircuitFailureThreshold : 1..MaxFailureThreshold,
   httpCircuitCooldownMs : {CooldownMs}]

\* What tryInitializeLlama and tryInitializeRuvllm will find on the host.
Runtimes == [llama : BOOLEAN, ruvllm : BOOLEAN]

\* The fields of a constructed InferenceEngine.
NewEngine(cfg, runtime) ==
  [config |-> cfg, runtime |-> runtime, initialized |-> FALSE,
   activeBackend |-> "mock",
   backendReady |-> [b \in Backends |-> b = "mock"],
   httpCircuit |-> [state |-> "closed", consecutiveFailures |-> 0,
                    openedAt |-> Undefined, nextAttemptAt |-> Undefined]]

FirstReady(e) ==
  LET isReady(b) == e.backendReady[b]
      ready == SelectSeq(BACKEND_ORDER, isReady)
  IN IF ready = <<>> THEN "mock" ELSE Head(ready)

\* initialize() that takes the mock for ready only when nothing else is.
initialize_MockOnlyAlone(e) ==
  IF e.initialized THEN e
  ELSE LET e1 == [e EXCEPT !.backendReady =
                     [b \in Backends |->
                        CASE b = "http" -> e.config.httpEndpoint
                          [] b = "llama" -> e.runtime.llama
                          [] b = "ruvllm" -> e.runtime.ruvllm
                          [] OTHER -> ~(e.config.httpEndpoint \/ e.runtime.llama \/ e.runtime.ruvllm)]]
       IN [e1 EXCEPT !.activeBackend = FirstReady(e1), !.initialized = TRUE]

initialize(e) ==
  IF e.initialized THEN e
  ELSE LET e1 == [e EXCEPT !.backendReady =
                     [b \in Backends |->
                        CASE b = "http" -> e.config.httpEndpoint
                          [] b = "llama" -> e.runtime.llama
                          [] b = "ruvllm" -> e.runtime.ruvllm
                          [] OTHER -> e.backendReady[b]]]
       IN [e1 EXCEPT !.activeBackend = FirstReady(e1), !.initialized = TRUE]

\* buildAttemptOrder that starts at the backend that served the last call.
buildAttemptOrder_FromActive(e) ==
  LET notBefore(b) ==
        \E i, j \in 1..Len(BACKEND_ORDER) :
           BACKEND_ORDER[i] = e.activeBackend /\ BACKEND_ORDER[j] = b /\ j >= i
  IN SelectSeq(BACKEND_ORDER, notBefore)

buildAttemptOrder(e) == BACKEND_ORDER

\* ensureHttpCircuitAllowsAttempt that lets every call through.
ensureHttpCircuitAllowsAttempt_NeverBlocks(e, t) ==
  [engine |-> e, threw |-> FALSE]

\* threw: the call ends with "HTTP circuit open; retry after ...".
ensureHttpCircuitAllowsAttempt(e, t) ==
  IF e.httpCircuit.state # "open" THEN [engine |-> e, threw |-> FALSE]
  ELSE IF OrZero(e.httpCircuit.nextAttemptAt) <= t
       THEN [engine |-> [e EXCEPT !.httpCircuit.state = "half_open"], threw |-> FALSE]
       ELSE [engine |-> e, threw |-> TRUE]

\* recordHttpSuccess that keeps the failure count.
recordHttpSuccess_KeepsCount(e) ==
  [e EXCEPT !.httpCircuit.state = "closed",
            !.httpCircuit.openedAt = Undefined,
            !.httpCircuit.nextAttemptAt = Undefined]

recordHttpSuccess(e) ==
  [e EXCEPT !.httpCircuit = [state |-> "closed", consecutiveFailures |-> 0,
                             openedAt |-> Undefined, nextAttemptAt |-> Undefined]]

\* recordHttpFailure that keeps the cooldown of the first opening.
recordHttpFailure_KeepsCooldown(e, t) ==
  LET failures == e.httpCircuit.consecutiveFailures + 1
      opened == IF e.httpCircuit.openedAt = Undefined THEN t
                ELSE OrZero(e.httpCircuit.openedAt)
  IN IF failures >= e.config.httpCircuitFailureThreshold \/ e.httpCircuit.state = "half_open"
     THEN [e EXCEPT !.httpCircuit =
             [state |-> "open", consecutiveFailures |-> failures,
              openedAt |-> <<opened>>,
              nextAttemptAt |-> <<opened + e.config.httpCircuitCooldownMs>>]]
     ELSE [e EXCEPT !.httpCircuit.consecutiveFailures = failures]

\* recordHttpFailure that opens the circuit one failure late.
recordHttpFailure_OpensLate(e, t) ==
  LET failures == e.httpCircuit.consecutiveFailures + 1
      reopened == [state |-> "open", consecutiveFailures |-> failures,
                   openedAt |-> <<t>>,
                   nextAttemptAt |-> <<t + e.config.httpCircuitCooldownMs>>]
  IN IF failures > e.config.httpCircuitFailureThreshold
     THEN [e EXCEPT !.httpCircuit = reopened]
     ELSE IF e.httpCircuit.state = "half_open"
          THEN [e EXCEPT !.httpCircuit = reopened]
          ELSE [e EXCEPT !.httpCircuit.consecutiveFailures = failures]

recordHttpFailure(e, t) ==
  LET failures == e.httpCircuit.consecutiveFailures + 1
      reopened == [state |-> "open", consecutiveFailures |-> failures,
                   openedAt |-> <<t>>,
                   nextAttemptAt |-> <<t + e.config.httpCircuitCooldownMs>>]
  IN IF failures >= e.config.httpCircuitFailureThreshold
     THEN [e EXCEPT !.httpCircuit = reopened]
     ELSE IF e.httpCircuit.state = "half_open"
          THEN [e EXCEPT !.httpCircuit = reopened]
          ELSE [e EXCEPT !.httpCircuit.consecutiveFailures = failures]

\* A 200 reply with generated content.
HttpOk == [statusCode |-> 200, message |-> "ok"]

\* The failures of one HTTP try: an error status, a reply without content,
\* a transport failure, the per-try timeout.
HttpErrors ==
  {[statusCode |-> 503, message |-> "HTTP 503"],
   [statusCode |-> 400, message |-> "HTTP 400"],
   [statusCode |-> None, message |-> "HTTP response did not include generated content"],
   [statusCode |-> None, message |-> "fetch failed"],
   [statusCode |-> None, message |-> "HTTP request timed out after ms"]}

\* The keywords of isRetryableHttpError that the lowercased message includes.
MessageKeywords(message) ==
  IF message = "fetch failed" THEN {"fetch failed"} ELSE {}

isRetryableHttpError(error) ==
  IF error.statusCode # None
  THEN error.statusCode = 408 \/ error.statusCode = 429 \/ error.statusCode >= 500
  ELSE MessageKeywords(error.message) \cap {"timeout", "network", "econnreset", "fetch failed"} # {}

\* No generate() call yet.
NoResult == [backend |-> "none", textEmpty |-> TRUE]

NoCall ==
  [id |-> 0, pc |-> "idle", idx |-> 0, attempt |-> 0, aborted |-> FALSE,
   lastError |-> FALSE, outcome |-> "none", result |-> NoResult,
   tried |-> <<>>, hits |-> 0, probe |-> FALSE, recorded |-> 0,
   failFastAt |-> 0, probeFailedAt |-> Undefined, sawFallback |-> FALSE,
   atStart |-> [now |-> 0, activeBackend |-> "mock", state |-> "closed",
                consecutiveFailures |-> 0, nextAttemptAt |-> Undefined]]

\* A generate() call at its first statement.  pc is the suspension point the
\* call waits at, idx the place in the attempt order of the backend being
\* tried, attempt the loop variable of generateWithHttp; tried, hits, probe,
\* recorded, failFastAt, probeFailedAt, sawFallback and atStart record what
\* the call did.
NewCall(id, e, t) ==
  [NoCall EXCEPT !.id = id, !.pc = "start",
                 !.atStart = [now |-> t, activeBackend |-> e.activeBackend,
                              state |-> e.httpCircuit.state,
                              consecutiveFailures |-> e.httpCircuit.consecutiveFailures,
                              nextAttemptAt |-> e.httpCircuit.nextAttemptAt]]

\* generate, lines 126-128: the backend returned a result.
finishCall(st, backend, textEmpty) ==
  [e |-> [st.e EXCEPT !.activeBackend = backend],
   c |-> [st.c EXCEPT !.pc = "done", !.outcome = "returned",
                      !.result = [backend |-> backend, textEmpty |-> textEmpty],
                      !.tried = Append(@, <<backend, "ok">>)]]

\* generate, lines 129-136: the backend threw.
backendFailed(st, backend, why) ==
  [st EXCEPT !.c.lastError = TRUE, !.c.tried = Append(@, <<backend, why>>)]

\* generate, lines 139-141: the call rejects with the last error.
rejectCall(st) == [st EXCEPT !.c.pc = "done", !.c.outcome = "rejected"]

\* generateWithHttp, lines 234-251: one wire request is issued.
fetch(st, attempt) ==
  [st EXCEPT !.c.pc = "http_fetch", !.c.attempt = attempt, !.c.hits = @ + 1]

\* The loop of generate from the backend at place idx on, up to the next
\* suspension point; for http this is generateWithHttp up to its first fetch.
RECURSIVE tryBackends(_, _, _)
tryBackends(st, t, idx) ==
  LET order == buildAttemptOrder(st.e)
  IN IF idx > Len(order)
     THEN IF st.c.lastError THEN rejectCall(st)
          ELSE [st EXCEPT !.c.pc = "mock", !.c.idx = idx]
     ELSE IF ~st.e.backendReady[order[idx]] THEN tryBackends(st, t, idx + 1)
     ELSE IF order[idx] # "http" THEN [st EXCEPT !.c.pc = order[idx], !.c.idx = idx]
     ELSE LET check == ensureHttpCircuitAllowsAttempt(st.e, t)
          IN IF check.threw
             THEN tryBackends(backendFailed(st, "http", "circuit_open"), t, idx + 1)
             ELSE fetch([st EXCEPT !.e = check.engine, !.c.idx = idx,
                                   !.c.probe = check.engine.httpCircuit.state = "half_open"
                                               /\ st.e.httpCircuit.state = "open"],
                        0)

\* The retry loop with one try too many.
httpLoop_OneMoreTry(st, t, attempt) ==
  IF attempt > (IF st.e.config.httpMaxRetries > 0 THEN st.e.config.httpMaxRetries ELSE 0) + 1
  THEN tryBackends(backendFailed(st, "http", "failed"), t, st.c.idx + 1)
  ELSE fetch(st, attempt)

\* generateWithHttp, line 233: the head of the retry loop.
httpLoop(st, t, attempt) ==
  IF attempt > (IF st.e.config.httpMaxRetries > 0 THEN st.e.config.httpMaxRetries ELSE 0)
  THEN tryBackends(backendFailed(st, "http", "failed"), t, st.c.idx + 1)
  ELSE fetch(st, attempt)

\* generateWithHttp, lines 253-303: the reply of one try.
onHttpResponse(st, t, response) ==
  IF response = HttpOk THEN finishCall([st EXCEPT !.e = recordHttpSuccess(@)], "http", FALSE)
  ELSE LET maxRetries == IF st.e.config.httpMaxRetries > 0 THEN st.e.config.httpMaxRetries ELSE 0
           canRetry == st.c.attempt < maxRetries /\ isRetryableHttpError(response)
       IN IF canRetry THEN [st EXCEPT !.c.pc = "http_backoff"]
          ELSE httpLoop([st EXCEPT !.e = recordHttpFailure(@, t),
                                   !.c.recorded = @ + 1,
                                   !.c.failFastAt =
                                      IF @ = 0 /\ ~isRetryableHttpError(response)
                                      THEN st.c.hits ELSE @,
                                   !.c.probeFailedAt =
                                      IF st.c.probe THEN <<t>> ELSE @],
                        t, st.c.attempt + 1)

\* The signal of the task is tripped while the call waits at pc. In the catch
\* block of generateWithHttp (lines 277-304) an error whose name or message
\* holds "abort" is rethrown as the reason of the signal; the reason itself, a
\* TaskTimeoutError, holds neither "abort" nor a retryable keyword, so it is
\* taken for a failure of the try and recordHttpFailure runs before the next
\* throwIfAborted ends the call. Everywhere else the reason propagates.
onAbort(st, t, rejection) ==
  LET ended == [st EXCEPT !.c.aborted = TRUE, !.c.lastError = TRUE,
                          !.c.pc = "done", !.c.outcome = "rejected"]
  IN IF st.c.pc = "http_fetch" /\ rejection = "reason"
     THEN [ended EXCEPT !.e = recordHttpFailure(@, t),
                        !.c.recorded = @ + 1,
                        !.c.probeFailedAt = IF st.c.probe THEN <<t>> ELSE @]
     ELSE ended

\* generate, lines 107-144, up to the first suspension point.
generate(e, t, id) ==
  tryBackends([e |-> initialize(e), c |-> NewCall(id, e, t)], t, 1)

\* ------------------------------------------------------------------ Init
EmptyPool ==
  [workers |-> <<>>, node |-> <<>>, createdWorkers |-> 0,
   queue |-> <<>>, pendingByTaskId |-> {}, runningByTaskId |-> {},
   item |-> <<>>, inFlight |-> 0, submittedTasks |-> 0, failedTasks |-> 0,
   cancelledTasks |-> 0, timedOutTasks |-> 0, rejectedTasks |-> 0,
   taskCounter |-> 0, scaleDownTimer |-> TRUE]

\* ------------------------------------------------------------------------
\* The pattern memory of one worker (SonaEngine)
\* ------------------------------------------------------------------------
\* Fractions are held in units of 1/Unit, rounded down.
Fixed(numerator, denominator) == (numerator * Unit) \div denominator

Min2(a, b) == IF a < b THEN a ELSE b

Max2(a, b) == IF a > b THEN a ELSE b

\* The patterns Map: a sequence of pattern records in insertion order.
Keys(patterns) == {patterns[i].key : i \in 1..Len(patterns)}

PatternOf(patterns, key) == patterns[CHOOSE i \in 1..Len(patterns) : patterns[i].key = key]

\* Map.set: an existing key keeps its place, a new one goes last.
MapSet(patterns, pattern) ==
  IF pattern.key \in Keys(patterns)
  THEN [i \in 1..Len(patterns) |->
          IF patterns[i].key = pattern.key THEN pattern ELSE patterns[i]]
  ELSE Append(patterns, pattern)

\* The fields of a constructed SonaEngine before loadStateFromDisk. Kept for
\* the properties: fresh (nothing happened since the load), evicted and
\* evictedMax (how many patterns the last consolidation evicted for the
\* ceiling, and the largest strength among them), ops and restarts (how many
\* calls and restarts the worker has seen), touched and touchedWith (the keys
\* and the success flag of the last recordInteraction).
NewSona(options) ==
  [options |-> options, interactions |-> 0, successes |-> 0, consolidations |-> 0,
   lastConsolidatedAt |-> Undefined, patterns |-> <<>>,
   fresh |-> TRUE, evicted |-> 0, evictedMax |-> 0, ops |-> 0, restarts |-> 0,
   touched |-> <<>>, touchedWith |-> FALSE]

\* A record of the patterns array that has every field, of type number.
WellFormed(entry) == entry.shape = "record"

\* The state file can be used: it exists, parses, has version 1 and a
\* patterns array.
Acceptable(file) == file.kind = "json" /\ file.version = 1 /\ file.hasPatterns

\* loadStateFromDisk, lines 518-525: one record of the file into the Map.
loadPattern(entry) ==
  [key |-> entry.key,
   score |-> clamp(entry.score, Fixed(1, 100), Fixed(1, 1)),
   importance |-> clamp(entry.importance, Fixed(1, 100), Fixed(99, 100)),
   hits |-> Max2(0, entry.hits),
   successes |-> Max2(0, entry.successes),
   lastSeenAt |-> Max2(0, entry.lastSeenAt)]

\* The loop of loadStateFromDisk, lines 507-526: an entry that is not an
\* object with the six typed fields is skipped; reading pattern.key of a null
\* entry throws into the catch of loadStateFromDisk, which ends the loop. A
\* key met again overwrites the value and keeps the place of the first.
loadPatterns(entries) ==
  LET stop == IF \E i \in 1..Len(entries) : entries[i].shape = "null"
              THEN CHOOSE i \in 1..Len(entries) :
                     /\ entries[i].shape = "null"
                     /\ \A j \in 1..(i - 1) : entries[j].shape # "null"
              ELSE Len(entries) + 1
      read == SelectSeq(SubSeq(entries, 1, stop - 1), WellFormed)
      isFirst(i) == \A j \in 1..(i - 1) : read[j].key # read[i].key
      last(key) == CHOOSE i \in 1..Len(read) :
                     /\ read[i].key = key
                     /\ \A j \in (i + 1)..Len(read) : read[j].key # key
      firsts == SelectSeq([i \in 1..Len(read) |-> i], isFirst)
  IN IF Cardinality({read[i].key : i \in 1..Len(read)}) = Len(read)
     THEN [i \in 1..Len(read) |-> loadPattern(read[i])]
     ELSE [k \in 1..Len(firsts) |-> loadPattern(read[last(read[firsts[k]].key)])]

loadStateFromDisk(s, file) ==
  IF ~s.options.enabled \/ ~s.options.stateFile \/ ~Acceptable(file) THEN s
  ELSE [s EXCEPT !.interactions = Max2(0, file.interactions),
                 !.successes = Max2(0, file.successes),
                 !.consolidations = Max2(0, file.consolidations),
                 !.lastConsolidatedAt = file.lastConsolidatedAt,
                 !.patterns = loadPatterns(file.patterns)]

\* The payload of flush: the counters and every pattern.
Snapshot(s) ==
  [kind |-> "json", version |-> 1, hasPatterns |-> TRUE, written |-> TRUE,
   interactions |-> s.interactions, successes |-> s.successes,
   consolidations |-> s.consolidations, lastConsolidatedAt |-> s.lastConsolidatedAt,
   patterns |-> [i \in 1..Len(s.patterns) |->
                   [shape |-> "record", key |-> s.patterns[i].key,
                    score |-> s.patterns[i].score,
                    importance |-> s.patterns[i].importance,
                    hits |-> s.patterns[i].hits,
                    successes |-> s.patterns[i].successes,
                    lastSeenAt |-> s.patterns[i].lastSeenAt]]]

\* flush that writes the counters without the successes.
flush_NoSuccesses(s, file) ==
  IF ~s.options.enabled \/ ~s.options.stateFile THEN file
  ELSE [Snapshot(s) EXCEPT !.successes = 0]

\* flush: the new content of the state file.
flush(s, file) ==
  IF ~s.options.enabled \/ ~s.options.stateFile THEN file ELSE Snapshot(s)

calculateQuality(input) ==
  LET base == IF input.success THEN Fixed(8, 10) ELSE Fixed(2, 10)
      latencyPenalty == Min2(Fixed(input.latencyMs, 12000), Fixed(4, 10))
      tokenBonus == IF input.completionTokens # Undefined
                    THEN Min2(Fixed(OrZero(input.completionTokens), 1600), Fixed(15, 100))
                    ELSE 0
      promptPenalty == IF input.promptTokens # Undefined
                       THEN Min2(Fixed(OrZero(input.promptTokens), 8000), Fixed(8, 100))
                       ELSE 0
  IN clamp(base + tokenBonus - latencyPenalty - promptPenalty, Fixed(5, 100), Fixed(1, 1))

\* updatePattern with a decay that outweighs the gain of a success.
updatePattern_FastDecay(patterns, key, quality, success, t) ==
  LET old == IF key \in Keys(patterns) THEN PatternOf(patterns, key)
             ELSE [key |-> key, score |-> Fixed(5, 10), importance |-> Fixed(2, 10),
                   hits |-> 0, successes |-> 0, lastSeenAt |-> t]
      plasticity == Max2(Fixed(5, 100), Unit - old.importance)
      alpha == (28 * plasticity) \div 100
      stabilityGain == IF success THEN Fixed(6, 100) ELSE Fixed(1, 100)
  IN MapSet(patterns,
            [old EXCEPT !.hits = @ + 1,
                        !.successes = @ + (IF success THEN 1 ELSE 0),
                        !.lastSeenAt = t,
                        !.score = (old.score * (Unit - alpha) + quality * alpha) \div Unit,
                        !.importance = clamp((old.importance * 90) \div 100 + stabilityGain,
                                             Fixed(5, 100), Fixed(99, 100))])

updatePattern(patterns, key, quality, success, t) ==
  LET old == IF key \in Keys(patterns) THEN PatternOf(patterns, key)
             ELSE [key |-> key, score |-> Fixed(5, 10), importance |-> Fixed(2, 10),
                   hits |-> 0, successes |-> 0, lastSeenAt |-> t]
      plasticity == Max2(Fixed(5, 100), Unit - old.importance)
      alpha == (28 * plasticity) \div 100
      stabilityGain == IF success THEN Fixed(6, 100) ELSE Fixed(1, 100)
  IN MapSet(patterns,
            [old EXCEPT !.hits = @ + 1,
                        !.successes = @ + (IF success THEN 1 ELSE 0),
                        !.lastSeenAt = t,
                        !.score = (old.score * (Unit - alpha) + quality * alpha) \div Unit,
                        !.importance = clamp((old.importance * 97) \div 100 + stabilityGain,
                                             Fixed(5, 100), Fixed(99, 100))])

RECURSIVE updatePatterns(_, _, _, _, _)
updatePatterns(patterns, keys, quality, success, t) ==
  IF keys = <<>> THEN patterns
  ELSE updatePatterns(updatePattern(patterns, Head(keys), quality, success, t),
                      Tail(keys), quality, success, t)

\* The strength consolidate sorts by, 0.7 score + 0.3 importance, times ten.
Strength(pattern) == 7 * pattern.score + 3 * pattern.importance

\* An eviction that drops the patterns inserted last.
evictOverflow_Newest(patterns) ==
  {patterns[i].key : i \in (MAX_PATTERNS + 1)..Len(patterns)}

\* The keys of the first count patterns in ascending order of strength; the
\* sort is stable, so of two patterns of equal strength the one inserted
\* first comes first.
RECURSIVE weakest(_, _)
weakest(patterns, count) ==
  IF count <= 0 THEN {}
  ELSE LET taken == weakest(patterns, count - 1)
           left == {i \in 1..Len(patterns) : patterns[i].key \notin taken}
           before(j, i) == \/ Strength(patterns[j]) < Strength(patterns[i])
                           \/ Strength(patterns[j]) = Strength(patterns[i]) /\ j < i
           next == CHOOSE i \in left : \A j \in left : ~before(j, i)
       IN taken \cup {patterns[next].key}

\* consolidate, lines 400-408: sort by strength, slice(0, size - MAX_PATTERNS).
evictOverflow(patterns) == weakest(patterns, Len(patterns) - MAX_PATTERNS)

\* consolidate at time t: the worker and its state file afterwards.
consolidate(s, file, t) ==
  LET stale(p) == \/ p.hits <= 1 /\ t - p.lastSeenAt > 30 * 60000
                  \/ /\ 65 * p.score + 35 * p.importance < 22 * Unit
                     /\ t - p.lastSeenAt > 10 * 60000
      live(p) == ~stale(p)
      swept == SelectSeq(s.patterns, live)
      victims == IF Len(swept) > MAX_PATTERNS THEN evictOverflow(swept) ELSE {}
      kept(p) == p.key \notin victims
      strengths == {Strength(PatternOf(swept, key)) : key \in victims}
      after == [s EXCEPT !.consolidations = @ + 1,
                         !.lastConsolidatedAt = <<t>>,
                         !.patterns = SelectSeq(swept, kept),
                         !.evicted = Cardinality(victims),
                         !.evictedMax = IF victims = {} THEN 0
                                        ELSE CHOOSE m \in strengths :
                                               \A other \in strengths : other <= m]
  IN [sona |-> after, disk |-> flush(after, file)]

\* extractPatternKeys: the task type, task:general, the language if any, and
\* one key per keyword of the instruction, without repetition.
extractPatternKeys(input) ==
  <<"task:" \o input.taskType, "task:general">>
    \o (IF input.language = "" THEN <<>> ELSE <<"lang:" \o input.language>>)
    \o [i \in 1..Len(input.keywords) |-> "kw:" \o input.keywords[i]]

\* recordInteraction at time t: the worker and its state file afterwards.
recordInteraction(s, file, input, t) ==
  IF ~s.options.enabled THEN [sona |-> s, disk |-> file]
  ELSE LET counted == [s EXCEPT !.interactions = @ + 1,
                                !.successes = @ + (IF input.success THEN 1 ELSE 0),
                                !.fresh = FALSE,
                                !.touched = extractPatternKeys(input),
                                !.touchedWith = input.success]
           updated == [counted EXCEPT !.patterns =
                         updatePatterns(@, extractPatternKeys(input),
                                        calculateQuality(input), input.success, t)]
           swept == IF updated.interactions % CONSOLIDATE_INTERVAL = 0
                    THEN consolidate(updated, file, t)
                    ELSE [sona |-> updated, disk |-> file]
       IN IF swept.sona.interactions % Max2(1, swept.sona.options.persistInterval) = 0
          THEN [sona |-> swept.sona, disk |-> flush(swept.sona, swept.disk)]
          ELSE swept

\* A pattern memory nobody drives: in the runs of the pool and of the engine
\* the memory of each worker is present through its counters only.
IdleSona == NewSona([enabled |-> FALSE, stateFile |-> FALSE, persistInterval |-> 1])

NoFile == [kind |-> "missing"]

\* An engine nobody calls: in the runs of the pool the engine of each worker
\* is present through its replies only (BackendSuccess, BackendFailure).
IdleEngine ==
  NewEngine([httpEndpoint |-> FALSE, httpMaxRetries |-> 0,
             httpCircuitFailureThreshold |-> 1, httpCircuitCooldownMs |-> CooldownMs],
            [llama |-> FALSE, ruvllm |-> FALSE])

\* The WorkerPool constructor.
Init ==
  /\ config \in Configs
  /\ now = 0
  /\ shutdownCalls = 0
  /\ engine = IdleEngine
  /\ call = NoCall
  /\ sona = IdleSona
  /\ disk = NoFile
  /\ pool = createWorkers(EmptyPool,
                          clamp(config.initialWorkers, effectiveMinWorkers, effectiveMaxWorkers))

\* --------------------------------------------------------------- actions
TimeoutInputs == {Undefined} \cup {<<ms>> : ms \in {-1, 0, 1}}
ScaleTargets == 0..(CfgMaxWorkers + 1)

Untimed(s) == Cardinality({t \in DOMAIN s.item : s.item[t].timeoutHandle = "none"})

WithinWorkerBound(s) == s.createdWorkers <= MaxCreatedWorkers

Submit(requestTimeoutMs) ==
  /\ IF QueueIsFull(pool) THEN pool.rejectedTasks < MaxRejected
                          ELSE pool.taskCounter < MaxTasks
  /\ WithinWorkerBound(executeTask(pool, requestTimeoutMs))
  /\ Untimed(executeTask(pool, requestTimeoutMs)) <= MaxUntimed
  /\ pool' = executeTask(pool, requestTimeoutMs)
  /\ UNCHANGED <<config, now, shutdownCalls, engineVars, sonaVars>>

TimerFire(t) ==
  /\ t \in DOMAIN pool.item
  /\ pool.item[t].timeoutHandle = "armed"
  /\ pool' = timeoutCallback(pool, t)
  /\ UNCHANGED <<config, now, shutdownCalls, engineVars, sonaVars>>

BackendSuccess(t) ==
  /\ t \in DOMAIN pool.item
  /\ pool.item[t].call = "inflight"
  /\ pool' = [onFulfilled(pool, t) EXCEPT !.item[t].call = "replied"]
  /\ UNCHANGED <<config, now, shutdownCalls, engineVars, sonaVars>>

BackendErrors(t) == IF pool.item[t].aborted THEN {"BackendError", pool.item[t].outcome} ELSE {"BackendError"}

BackendFailure(t) ==
  /\ t \in DOMAIN pool.item
  /\ pool.item[t].call = "inflight"
  /\ \E error \in BackendErrors(t) :
       pool' = [onRejected(pool, t, error) EXCEPT !.item[t].call = "replied"]
  /\ UNCHANGED <<config, now, shutdownCalls, engineVars, sonaVars>>

BackendFinally(t) ==
  /\ t \in DOMAIN pool.item
  /\ pool.item[t].call = "replied"
  /\ pool' = onFinally(pool, t)
  /\ UNCHANGED <<config, now, shutdownCalls, engineVars, sonaVars>>

Scale(target) ==
  /\ WithinWorkerBound(scaleWorkers(pool, target))
  /\ pool' = scaleWorkers(pool, target)
  /\ UNCHANGED <<config, now, shutdownCalls, engineVars, sonaVars>>

Heartbeat ==
  /\ pool.scaleDownTimer
  /\ pool' = maybeScaleDown(pool)
  /\ UNCHANGED <<config, now, shutdownCalls, engineVars, sonaVars>>

Shutdown ==
  /\ shutdownCalls < MaxShutdowns
  /\ shutdownCalls' = shutdownCalls + 1
  /\ pool' = shutdown(pool)
  /\ UNCHANGED <<config, now, engineVars, sonaVars>>

Tick ==
  /\ now < MaxTicks * TickMs
  /\ now' = now + TickMs
  /\ UNCHANGED <<config, pool, shutdownCalls, engineVars, sonaVars>>

Next ==
  \/ \E requestTimeoutMs \in TimeoutInputs : Submit(requestTimeoutMs)
  \/ \E t \in TaskIds : TimerFire(t)
  \/ \E t \in TaskIds : BackendSuccess(t)
  \/ \E t \in TaskIds : BackendFailure(t)
  \/ \E t \in TaskIds : BackendFinally(t)
  \/ \E target \in ScaleTargets : Scale(target)
  \/ Heartbeat
  \/ Shutdown
  \/ Tick

Spec == Init /\ [][Next]_vars

\* The event loop runs every armed timer and every queued promise reaction;
\* nothing obliges a backend call to return.
FairSpec ==
  /\ Spec
  /\ \A t \in TaskIds : WF_vars(TimerFire(t))
  /\ \A t \in TaskIds : WF_vars(BackendFinally(t))

\* ------------------------------------------------------------------------
\* The runs of one engine: generate() calls made one after the other, as the
\* pool makes them on a worker (runOnWorker takes a worker with no active
\* task), their replies, cancellation and the clock.
\* ------------------------------------------------------------------------
StandaloneConfig ==
  loadServerConfig([minWorkers |-> 1, maxWorkers |-> 1, initialWorkers |-> 1,
                    queueMaxLength |-> 1, forceSingleLlamaWorker |-> FALSE])

EngineInit ==
  /\ config = StandaloneConfig
  /\ now = 0
  /\ shutdownCalls = 0
  /\ pool = createWorkers(EmptyPool, StandaloneConfig.initialWorkers)
  /\ engine \in {NewEngine(cfg, runtime) : cfg \in EngineConfigs, runtime \in Runtimes}
  /\ call = NoCall
  /\ sona = IdleSona
  /\ disk = NoFile

HttpResponses == {HttpOk} \cup HttpErrors

LocalReplies == {"text", "empty", "error"}

Running == call.pc \notin {"idle", "done"}

\* engine.generate(request, signal) is called.
Generate ==
  /\ ~Running
  /\ call.id < MaxCalls
  /\ LET st == generate(engine, now, call.id + 1)
     IN engine' = st.e /\ call' = st.c
  /\ UNCHANGED <<config, now, pool, shutdownCalls, sonaVars>>

\* The fetch of one try settles.
HttpReply(response) ==
  /\ call.pc = "http_fetch"
  /\ LET st == onHttpResponse([e |-> engine, c |-> call], now, response)
     IN engine' = st.e /\ call' = st.c
  /\ UNCHANGED <<config, now, pool, shutdownCalls, sonaVars>>

\* The backoff sleep between two tries ends.
BackoffElapsed ==
  /\ call.pc = "http_backoff"
  /\ LET st == httpLoop([e |-> engine, c |-> call], now, call.attempt + 1)
     IN engine' = st.e /\ call' = st.c
  /\ UNCHANGED <<config, now, pool, shutdownCalls, sonaVars>>

\* session.prompt of node-llama-cpp settles; its text is returned as it is.
LlamaReply(reply) ==
  /\ call.pc = "llama"
  /\ LET st == IF reply = "error"
               THEN tryBackends(backendFailed([e |-> engine, c |-> call], "llama", "failed"),
                                now, call.idx + 1)
               ELSE finishCall([e |-> engine, c |-> call], "llama", reply = "empty")
     IN engine' = st.e /\ call' = st.c
  /\ UNCHANGED <<config, now, pool, shutdownCalls, sonaVars>>

\* The outputs of the ruvllm client: a text, the banner of its JavaScript
\* fallback mode, nothing, or an error.
RuvllmReplies == LocalReplies \cup {"fallback"}

\* The ruvllm client settles; an empty output is an error, any other text is
\* the result.
RuvllmReply(reply) ==
  /\ call.pc = "ruvllm"
  /\ LET st0 == [e |-> engine, c |-> [call EXCEPT !.sawFallback = (reply = "fallback")]]
         st == IF reply \in {"text", "fallback"}
               THEN finishCall(st0, "ruvllm", FALSE)
               ELSE tryBackends(backendFailed(st0, "ruvllm", "failed"), now, call.idx + 1)
     IN engine' = st.e /\ call' = st.c
  /\ UNCHANGED <<config, now, pool, shutdownCalls, sonaVars>>

\* The sleep of generateWithMock ends; the call after the loop (line 143)
\* returns without recording the active backend.
MockReply ==
  /\ call.pc = "mock"
  /\ LET st == IF call.idx <= Len(buildAttemptOrder(engine))
               THEN finishCall([e |-> engine, c |-> call], "mock", FALSE)
               ELSE [e |-> engine,
                     c |-> [call EXCEPT !.pc = "done", !.outcome = "returned",
                                        !.result = [backend |-> "mock", textEmpty |-> FALSE]]]
     IN engine' = st.e /\ call' = st.c
  /\ UNCHANGED <<config, now, pool, shutdownCalls, sonaVars>>

\* What the pending operation rejects with when the signal of the task is
\* tripped. withAbort (sleep, llama, ruvllm, mock) rejects with the reason of
\* the signal. fetch rejects with the reason that createRequestSignal passed
\* on to its own controller, or, on runtimes that ignore the reason, with an
\* AbortError.
AbortRejections ==
  IF call.pc = "http_fetch" THEN {"AbortError", "reason"} ELSE {"reason"}

\* The caller trips the signal: the pending fetch, sleep or withAbort rejects
\* and every later backend throws at throwIfAborted.
Abort ==
  /\ Running
  /\ \E rejection \in AbortRejections :
       LET st == onAbort([e |-> engine, c |-> call], now, rejection)
       IN engine' = st.e /\ call' = st.c
  /\ UNCHANGED <<config, now, pool, shutdownCalls, sonaVars>>

EngineTick ==
  /\ now < MaxEngineTicks * EngineTickMs
  /\ now' = now + EngineTickMs
  /\ UNCHANGED <<config, pool, shutdownCalls, engineVars, sonaVars>>

EngineNext ==
  \/ Generate
  \/ \E response \in HttpResponses : HttpReply(response)
  \/ BackoffElapsed
  \/ \E reply \in LocalReplies : LlamaReply(reply)
  \/ \E reply \in RuvllmReplies : RuvllmReply(reply)
  \/ MockReply
  \/ Abort
  \/ EngineTick

EngineSpec == EngineInit /\ [][EngineNext]_vars

\* ------------------------------------------------------------------------
\* Runs of one pattern memory: a SonaEngine is constructed on a state file,
\* interactions are recorded, the file is flushed, the worker is restarted on
\* the same file, and the clock advances.
\* ------------------------------------------------------------------------
SonaOptions ==
  [enabled : BOOLEAN, stateFile : BOOLEAN, persistInterval : {sonaPersistInterval}]

Entry(shape, key, score, importance, hits, successes) ==
  [shape |-> shape, key |-> key, score |-> score, importance |-> importance,
   hits |-> hits, successes |-> successes, lastSeenAt |-> 0]

\* Entries of the patterns array of a state file: two records in range, one
\* with numbers out of range, null, a number, and an object whose hits is
\* a string.
SampleEntries ==
  {Entry("record", "task:general", Fixed(5, 10), Fixed(2, 10), 1, 1),
   Entry("record", "kw:cache", Fixed(9, 10), Fixed(95, 100), 5, 5),
   Entry("record", "kw:retry", 2 * Unit, 0, -1, -1),
   Entry("null", "", 0, 0, 0, 0),
   Entry("nonobject", "", 0, 0, 0, 0),
   Entry("badfield", "kw:cache", Fixed(5, 10), Fixed(5, 10), 0, 0)}

JsonFile(version, hasPatterns, interactions, patterns) ==
  [kind |-> "json", version |-> version, hasPatterns |-> hasPatterns, written |-> FALSE,
   interactions |-> interactions, successes |-> interactions, consolidations |-> 0,
   lastConsolidatedAt |-> Undefined, patterns |-> patterns]

\* A state file of n patterns, one interaction before a consolidation.
LargeFile(n) ==
  JsonFile(1, TRUE, CONSOLIDATE_INTERVAL - 1,
           [i \in 1..n |->
              Entry("record", "kw:w" \o ToString(i),
                    Fixed(1, 10) + ((i * 37) % Fixed(8, 10)),
                    Fixed(5, 100) + ((i * 13) % Fixed(9, 10)), 2, 1)])

SmallFiles ==
  {JsonFile(1, TRUE, interactions, patterns) :
     interactions \in {0, CONSOLIDATE_INTERVAL - 1},
     patterns \in UNION {[1..n -> SampleEntries] : n \in 0..MaxFileEntries}}

SonaFiles ==
  {NoFile, [kind |-> "unparsable"],
   JsonFile(2, TRUE, 1, <<Entry("record", "task:general", Fixed(5, 10), Fixed(2, 10), 1, 1)>>),
   JsonFile(1, FALSE, 1, <<>>)}
    \cup SmallFiles
    \cup {LargeFile(MAX_PATTERNS + over) : over \in 0..MaxOverflow}

\* new SonaEngine(options): the constructor loads the state file.
SonaInit ==
  /\ config = StandaloneConfig
  /\ now = 0
  /\ shutdownCalls = 0
  /\ pool = createWorkers(EmptyPool, StandaloneConfig.initialWorkers)
  /\ engine = IdleEngine
  /\ call = NoCall
  /\ disk \in SonaFiles
  /\ \E options \in SonaOptions : sona = loadStateFromDisk(NewSona(options), disk)

RecordInputs ==
  [taskType : {"generate"}, language : {""}, keywords : {<<>>, <<"cache">>},
   success : BOOLEAN, latencyMs : {0, 6000},
   completionTokens : {Undefined}, promptTokens : {Undefined}]

\* sona.recordInteraction(input) is called.
SonaRecord(input) ==
  /\ sona.ops < MaxSonaOps
  /\ LET after == recordInteraction(sona, disk, input, now)
     IN /\ sona' = [after.sona EXCEPT !.ops = @ + 1]
        /\ disk' = after.disk
  /\ UNCHANGED <<config, now, pool, shutdownCalls, engineVars>>

\* sona.flush() is called.
SonaFlushStep ==
  /\ sona.ops < MaxSonaOps
  /\ sona' = [sona EXCEPT !.ops = @ + 1, !.fresh = FALSE]
  /\ disk' = flush(sona, disk)
  /\ UNCHANGED <<config, now, pool, shutdownCalls, engineVars>>

\* The process ends and a new SonaEngine is constructed for the same worker
\* id on the same state directory.
SonaRestart ==
  /\ sona.restarts < MaxRestarts
  /\ sona' = [loadStateFromDisk(NewSona(sona.options), disk)
                EXCEPT !.restarts = sona.restarts + 1, !.ops = sona.ops]
  /\ UNCHANGED <<config, now, pool, shutdownCalls, engineVars, disk>>

SonaTick ==
  /\ now < MaxSonaTicks * SonaTickMs
  /\ now' = now + SonaTickMs
  /\ UNCHANGED <<config, pool, shutdownCalls, engineVars, sonaVars>>

SonaNext ==
  \/ \E input \in RecordInputs : SonaRecord(input)
  \/ SonaFlushStep
  \/ SonaRestart
  \/ SonaTick

SonaSpec == SonaInit /\ [][SonaNext]_vars

\* ------------------------------------------------------------------------
\* Properties of the worker pool
\* ------------------------------------------------------------------------
Admitted == DOMAIN pool.item

Outcome(t) == pool.item[t].outcome

\* A step of executeTask: it either admits or rejects.
SubmitStep ==
  \/ pool'.submittedTasks # pool.submittedTasks
  \/ pool'.rejectedTasks # pool.rejectedTasks

\* A step of shutdown().
ShutdownStep == shutdownCalls' # shutdownCalls

\* C1: the promise of an admitted task is resolved or rejected at most once;
\* once the `settled` latch is set, no later step changes the outcome the
\* caller observed.
C1_SettledAtMostOnce ==
  [][\A t \in Admitted :
       /\ pool'.item[t].settleCalls <= 1
       /\ pool.item[t].settled =>
            /\ pool'.item[t].settled
            /\ pool'.item[t].outcome = Outcome(t)
            /\ pool'.item[t].settleCalls = pool.item[t].settleCalls]_vars

\* A task that timed out while running, whose backend call then ended, and
\* which was still registered as running when shutdown() was called.
C1_Witness ==
  \E t \in Admitted :
    /\ Outcome(t) = "Timeout"
    /\ pool.item[t].call = "replied"
    /\ shutdownCalls = 1

\* C2: every admitted task eventually settles, whatever timeoutMs the tool
\* handlers let through, even if its backend call never returns.
C2_AdmittedTaskSettles ==
  \A t \in TaskIds :
    (t \in Admitted) ~> (t \in Admitted /\ pool.item[t].settled)

\* C3: a submission made while the queue holds queueMaxLength waiting items
\* is rejected: rejectedTasks grows by one and nothing else of the pool
\* changes.
C3_OverflowRejected ==
  [][(SubmitStep /\ Len(pool.queue) >= config.queueMaxLength) =>
       pool' = [pool EXCEPT !.rejectedTasks = @ + 1]]_vars

C3_Witness ==
  /\ pool.rejectedTasks = 1
  /\ Len(pool.queue) = config.queueMaxLength
  /\ pool.inFlight = Len(pool.workers)

\* C4: in-flight tasks do not count against the queue limit: a submission is
\* admitted whenever fewer than queueMaxLength items wait undispatched, and
\* the queue never holds more than queueMaxLength items.
C4_InFlightNotCounted ==
  [][/\ Len(pool.queue) <= config.queueMaxLength
     /\ Len(pool'.queue) <= config.queueMaxLength
     /\ (SubmitStep /\ Len(pool.queue) < config.queueMaxLength) =>
          /\ pool'.submittedTasks = pool.submittedTasks + 1
          /\ pool'.rejectedTasks = pool.rejectedTasks]_vars

\* One worker, queueMaxLength = 1: the first submission ran, the second
\* queued, the third was rejected, and the first two completed.
C4_Witness ==
  /\ config.maxWorkers = 1
  /\ config.queueMaxLength = 1
  /\ pool.submittedTasks = 2
  /\ pool.rejectedTasks = 1
  /\ \A t \in Admitted : Outcome(t) = "Success" /\ pool.item[t].call = "ended"

\* C5: a deadline timer firing on an unsettled task, queued or running,
\* rejects it with TaskTimeoutError, aborts its AbortController and counts
\* it exactly once in timedOutTasks and in cancelledTasks.
C5_TimeoutSettles ==
  [][/\ \A t \in Admitted :
          (pool.item[t].timeoutHandle = "armed" /\ pool'.item[t].timeoutHandle = "fired") =>
             /\ ~pool.item[t].settled
             /\ pool'.item[t].outcome = "Timeout"
             /\ pool'.item[t].aborted
             /\ pool'.timedOutTasks = pool.timedOutTasks + 1
             /\ pool'.cancelledTasks = pool.cancelledTasks + 1
     /\ pool'.timedOutTasks = Cardinality({t \in DOMAIN pool'.item : pool'.item[t].timedOut})
     /\ pool'.cancelledTasks = Cardinality({t \in DOMAIN pool'.item : pool'.item[t].timedOut})]_vars

C5_Witness ==
  \E queued, running \in Admitted :
    /\ Outcome(queued) = "Timeout" /\ ~pool.item[queued].started
    /\ Outcome(running) = "Timeout" /\ pool.item[running].started

\* C6: a backend answer that arrives after its task was cancelled or timed
\* out is discarded: the outcome and every counter of the pool, of the
\* worker and of its pattern memory stay as they were.
C6_LateArrivalDiscarded ==
  [][\A t \in Admitted :
       (/\ pool.item[t].settled
        /\ pool.item[t].call = "inflight"
        /\ pool'.item[t].call = "replied") =>
          pool' = [pool EXCEPT !.item[t].call = "replied"]]_vars

C6_Witness ==
  /\ \E t \in Admitted : Outcome(t) = "Timeout" /\ pool.item[t].call = "replied"
  /\ \E t \in Admitted : Outcome(t) = "Cancelled" /\ pool.item[t].call = "replied"

\* The backend calls a worker has not finished yet.
ActiveCalls(w) ==
  {t \in Admitted : pool.item[t].worker = w /\ pool.item[t].call \in {"inflight", "replied"}}

\* C7: every worker has at most one in-flight task, and its activeTasks
\* stays 1 until the backend call of that task has ended, also when the
\* task itself was settled earlier by its timeout.
C7_OneInFlightPerWorker ==
  \A w \in DOMAIN pool.node :
    /\ pool.node[w].activeTasks \in {0, 1}
    /\ pool.node[w].activeTasks = Cardinality(ActiveCalls(w))

\* A task waits in the queue while the only worker still runs the backend
\* call of a task that already timed out.
C7_Witness ==
  /\ Len(pool.queue) > 0
  /\ \E t \in Admitted :
       /\ Outcome(t) = "Timeout"
       /\ pool.item[t].call = "inflight"
       /\ pool.workers = <<pool.item[t].worker>>

\* C8: shutdown() settles every task that is pending or running (every
\* unsettled task is one of these) with TaskCancelledError, empties the
\* queue and flushes the pattern memory of every worker.
C8_ShutdownCancelsAll ==
  [][ShutdownStep =>
       /\ \A t \in Admitted :
            /\ ~pool.item[t].settled => t \in pool.pendingByTaskId \cup pool.runningByTaskId
            /\ pool'.item[t].settled
            /\ ~pool.item[t].settled => pool'.item[t].outcome = "Cancelled"
       /\ pool'.queue = <<>>
       /\ \A i \in 1..Len(pool.workers) :
            pool'.node[pool.workers[i]].sonaPersisted =
              pool.node[pool.workers[i]].sonaInteractions]_vars

\* After shutdown(): a task cancelled in the queue, a task cancelled on a
\* worker, and a worker whose one recorded interaction reached its snapshot.
C8_Witness ==
  /\ shutdownCalls = 1
  /\ \E t \in Admitted : Outcome(t) = "Cancelled" /\ ~pool.item[t].started
  /\ \E t \in Admitted : Outcome(t) = "Cancelled" /\ pool.item[t].started
  /\ \E i \in 1..Len(pool.workers) :
       /\ pool.node[pool.workers[i]].sonaInteractions = 1
       /\ pool.node[pool.workers[i]].sonaPersisted = 1

\* C9: once shutdown() has been called no submission is admitted, enqueued
\* or dispatched.
C9_NoAdmissionAfterShutdown ==
  [][shutdownCalls >= 1 =>
       /\ pool'.submittedTasks = pool.submittedTasks
       /\ pool'.queue = <<>>
       /\ pool'.inFlight <= pool.inFlight]_vars

\* C10: once every admitted task has settled, submittedTasks equals the
\* successful completions plus failedTasks plus cancelledTasks.
C10_CountersAccountForAll ==
  (\A t \in Admitted : pool.item[t].settled) =>
    pool.submittedTasks =
      Cardinality({t \in Admitted : Outcome(t) = "Success"})
        + pool.failedTasks + pool.cancelledTasks

\* A step of scaleWorkers(target).
ScaleStep == \E target \in ScaleTargets : Scale(target)

BusyWorkers(s) == {s.workers[i] : i \in {j \in 1..Len(s.workers) : s.node[s.workers[j]].activeTasks > 0}}

PoolWorkers(s) == {s.workers[i] : i \in 1..Len(s.workers)}

\* C11: scaleWorkers(target) aborts and alters no task and removes only idle
\* workers: every worker with activeTasks > 0 before the call is in the pool
\* after it with the same load, and the queue items (settled, started, token,
\* timer), the queue and the pending and running maps are left as they were.
C11_ScaleKeepsRunningTasks ==
  [][ScaleStep =>
       /\ pool'.item = pool.item
       /\ pool'.queue = pool.queue
       /\ pool'.pendingByTaskId = pool.pendingByTaskId
       /\ pool'.runningByTaskId = pool.runningByTaskId
       /\ BusyWorkers(pool) \subseteq PoolWorkers(pool')
       /\ \A w \in BusyWorkers(pool) : pool'.node[w] = pool.node[w]
       /\ \A w \in PoolWorkers(pool) \ PoolWorkers(pool') :
            pool.node[w].activeTasks = 0]_vars

\* An idle worker was removed by scaleWorkers (the clock has not moved, so the
\* idle sweep removed nothing) while a task is running on the worker kept.
C11_Witness ==
  /\ now = 0
  /\ Len(pool.workers) = 1
  /\ pool.createdWorkers = 2
  /\ pool.node[pool.workers[1]].activeTasks = 1
  /\ \E t \in DOMAIN pool.item :
       /\ pool.item[t].worker = pool.workers[1]
       /\ pool.item[t].call = "inflight"
       /\ ~pool.item[t].settled

\* C12: in every reachable state the number of workers lies between the
\* effective minWorkers and the effective maxWorkers.
C12_WorkerCountWithinBounds ==
  /\ effectiveMinWorkers <= Len(pool.workers)
  /\ Len(pool.workers) <= effectiveMaxWorkers

\* The pool stands at its ceiling, above its initial size, without a task
\* ever submitted: scaleWorkers grew it.
C12_Witness ==
  /\ pool.taskCounter = 0
  /\ pool.rejectedTasks = 0
  /\ Len(pool.workers) = effectiveMaxWorkers
  /\ effectiveMaxWorkers > clamp(config.initialWorkers, effectiveMinWorkers, effectiveMaxWorkers)
\* Task t settles in this step with a failure of its own: a backend error or
\* its timeout.
FailingStep(t) ==
  /\ ~pool.item[t].settled
  /\ pool'.item[t].settled
  /\ pool'.item[t].outcome # "Success"

\* An executeTask call is rejected for queue overflow in this step.
RejectedStep == pool'.rejectedTasks = pool.rejectedTasks + 1

\* The settlement, the token and the deadline of task u are as they were.
SiblingUntouched(u) ==
  /\ pool'.item[u].settled = pool.item[u].settled
  /\ pool'.item[u].outcome = pool.item[u].outcome
  /\ pool'.item[u].aborted = pool.item[u].aborted
  /\ pool'.item[u].timedOut = pool.item[u].timedOut
  /\ pool'.item[u].timeoutHandle = pool.item[u].timeoutHandle

\* C30: while the pool is not shut down, a task that fails or times out, or a
\* submission that is rejected, leaves every other task as it was: not
\* settled by it, its token not tripped, its deadline still armed.
C30_FanOutIndependence ==
  [][shutdownCalls' = shutdownCalls =>
       /\ \A t \in DOMAIN pool.item :
            FailingStep(t) => \A u \in DOMAIN pool.item \ {t} : SiblingUntouched(u)
       /\ RejectedStep => \A u \in DOMAIN pool.item : SiblingUntouched(u)]_vars

\* One task failed, one timed out, and a sibling of theirs succeeded with its
\* token untripped.
C30_Witness ==
  \E t, u, v \in DOMAIN pool.item :
     /\ pool.item[t].settled /\ pool.item[t].outcome = "BackendError"
     /\ pool.item[u].settled /\ pool.item[u].outcome = "Timeout"
     /\ pool.item[v].settled /\ pool.item[v].outcome = "Success"
     /\ ~pool.item[v].aborted

\* C31: tasks start in admission order. Task ids are given in admission
\* order, so when a task has been handed to a worker, every task admitted
\* before it has been handed to a worker too, or has settled in the queue.
C31_StartInAdmissionOrder ==
  \A a, b \in DOMAIN pool.item :
     (a < b /\ pool.item[b].started) => (pool.item[a].started \/ pool.item[a].settled)

\* Three tasks: the first and the last were dispatched, the one between them
\* timed out in the queue.
C31_Witness ==
  \E a, b, c \in DOMAIN pool.item :
     /\ a < b /\ b < c
     /\ pool.item[a].started /\ pool.item[c].started
     /\ ~pool.item[b].started /\ pool.item[b].timedOut

\* A step of executeTask that admits its task.
AdmissionStep == pool'.taskCounter = pool.taskCounter + 1

\* The test of maybeScaleUp as it stands once the new item is in the queue.
ShouldScale == Len(pool.queue) + 1 > Len(pool.workers) /\ Len(pool.workers) < effectiveMaxWorkers

\* C32: an admission creates exactly one worker when, with the new item in
\* the queue, the queue is longer than the pool and the pool is below
\* maxWorkers, and none otherwise; the dispatch pass of the same admission
\* uses the new worker.
C32_ScaleUpOnAdmission ==
  [][AdmissionStep =>
       /\ pool'.createdWorkers = pool.createdWorkers + (IF ShouldScale THEN 1 ELSE 0)
       /\ Len(pool'.workers) = Len(pool.workers) + (IF ShouldScale THEN 1 ELSE 0)
       /\ ShouldScale =>
            /\ pool'.workers[Len(pool'.workers)] = pool'.createdWorkers
            /\ pool'.node[pool'.createdWorkers].activeTasks = 1]_vars

\* The second worker exists, runs the second task, and the third task waits.
C32_Witness ==
  /\ pool.createdWorkers = 2
  /\ Len(pool.workers) = 2
  /\ 3 \in DOMAIN pool.item
  /\ pool.item[2].worker = 2 /\ pool.item[2].started
  /\ pool.queue = <<3>>

\* A worker that auto-scale-down has to remove: the pool is above its
\* minimum and the worker has no task and was last used more than
\* scaleDownIdleMs ago.
ScaleDownDue(s) ==
  /\ Len(s.workers) > effectiveMinWorkers
  /\ \E i \in 1..Len(s.workers) :
       /\ s.node[s.workers[i]].activeTasks = 0
       /\ now - s.node[s.workers[i]].lastUsedAt > scaleDownIdleMs

\* A task settles in this step by its timeout.
SettlesByTimeout ==
  \E t \in DOMAIN pool.item :
     ~pool.item[t].settled /\ pool'.item[t].settled /\ pool'.item[t].outcome = "Timeout"

\* The backend call of a task ends in this step (the finally of runOnWorker).
CallEnds ==
  \E t \in DOMAIN pool.item : pool.item[t].call = "replied" /\ pool'.item[t].call = "ended"

\* C33: auto-scale-down is evaluated on every settlement, and removes idle
\* workers until none is left to remove: after a task has settled by its
\* timeout, or its backend call has ended, no worker above the minimum is
\* without a task and idle for more than scaleDownIdleMs.
C33_ScaleDownOnEverySettlement ==
  [][(SettlesByTimeout \/ CallEnds) => ~ScaleDownDue(pool')]_vars

\* How many recorded interactions of worker w the state file does not have.
Lag(s, w) == s.node[w].sonaInteractions - s.node[w].sonaPersisted

\* The workers that leave the pool in this step.
RemovedWorkers == PoolWorkers(pool) \ PoolWorkers(pool')

\* C34: the state file of a worker is never persistInterval or more
\* interactions behind its memory, and when a worker is removed or the pool
\* is shut down the file has everything the memory has.
C34_SnapshotKeepsUp ==
  [][/\ \A w \in DOMAIN pool'.node :
          Lag(pool', w) >= 0 /\ Lag(pool', w) < sonaPersistInterval
     /\ \A w \in RemovedWorkers : Lag(pool', w) = 0
     /\ ShutdownStep => \A w \in PoolWorkers(pool') : Lag(pool', w) = 0]_vars

\* A worker that left the pool between two periodic flushes, its file
\* complete; and a worker in the pool with an interaction not yet on disk.
C34_Witness ==
  /\ \E w \in DOMAIN pool.node \ PoolWorkers(pool) :
       /\ pool.node[w].sonaInteractions % sonaPersistInterval # 0
       /\ Lag(pool, w) = 0
  /\ \E w \in PoolWorkers(pool) : Lag(pool, w) > 0

\* C35: shutdown() trips the cancellation token of every task that is
\* running when it is called, so that the backend call of the task stops.
C35_ShutdownTripsTokens ==
  [][ShutdownStep => \A t \in pool.runningByTaskId : pool'.item[t].aborted]_vars

\* C36: between pool operations a task waits in the queue only if every
\* worker of the pool has an active task.
C36_WorkConservation ==
  Len(pool.queue) > 0 =>
    \A i \in 1..Len(pool.workers) : pool.node[pool.workers[i]].activeTasks > 0

\* Task t has settled without having been handed to a worker.
SettledInQueue(s, t) == s.item[t].settled /\ ~s.item[t].started

\* C37: a task that settled while it was queued is not dispatched afterwards:
\* it is out of the queue, no backend call is made for it, it is given no
\* worker, and its started flag stays false.
C37_SettledInQueueNeverRuns ==
  [][\A t \in DOMAIN pool.item :
       SettledInQueue(pool, t) =>
         /\ ~pool'.item[t].started
         /\ pool'.item[t].call = "none"
         /\ pool'.item[t].worker = None
         /\ IndexOf(pool'.queue, t) = 0]_vars

\* A task that timed out in the queue, never started, and a task admitted
\* after it that ran and succeeded.
C37_Witness ==
  \E t, u \in DOMAIN pool.item :
     /\ t < u
     /\ SettledInQueue(pool, t) /\ pool.item[t].outcome = "Timeout"
     /\ pool.item[t].call = "none"
     /\ pool.item[u].started /\ pool.item[u].outcome = "Success"

\* ------------------------------------------------------------------------
\* Properties of the inference engine
\* ------------------------------------------------------------------------
\* The ready backends in canonical order.
ReadyOrder(e) ==
  LET isReady(b) == e.backendReady[b]
  IN SelectSeq(BACKEND_ORDER, isReady)

\* The backends the call has finished with, in the order it tried them.
TriedBackends(c) == [i \in 1..Len(c.tried) |-> c.tried[i][1]]

\* The backend whose reply the call is waiting for.
AwaitedBackend(c) == IF c.pc \in {"http_fetch", "http_backoff"} THEN "http" ELSE c.pc

CallEnded == call.pc = "done"

Threshold == engine.config.httpCircuitFailureThreshold

\* The circuit refuses an attempt made at time t.
CircuitBlocksAt(circuit, t) == circuit.state = "open" /\ t < OrZero(circuit.nextAttemptAt)

\* C13: a generate call whose signal is never aborted ends with a result,
\* whatever backends are ready and however they fail; the mock is always
\* ready, and with only the mock ready the result is the mock's, non-empty.
C13_EngineTotal ==
  /\ engine.backendReady["mock"]
  /\ (CallEnded /\ ~call.aborted) =>
       /\ call.outcome = "returned"
       /\ engine.backendReady[call.result.backend]
       /\ ReadyOrder(engine) = <<"mock">> =>
            call.result = [backend |-> "mock", textEmpty |-> FALSE]

\* http failed or was short-circuited, llama and ruvllm failed, and the mock
\* answered.
C13_Witness ==
  /\ CallEnded
  /\ ~call.aborted
  /\ TriedBackends(call) = BACKEND_ORDER
  /\ call.result = [backend |-> "mock", textEmpty |-> FALSE]

\* C14: every call tries the ready backends in the order http, llama,
\* ruvllm, mock from the top, whatever backend served the call before; the
\* result comes from the first one that succeeds and activeBackend is set to
\* it.
C14_FixedOrderFirstReadyWins ==
  call.pc # "idle" =>
    LET ready == ReadyOrder(engine)
        tried == TriedBackends(call)
    IN /\ Len(tried) <= Len(ready)
       /\ tried = SubSeq(ready, 1, Len(tried))
       /\ \A i \in 1..Len(tried) :
            call.tried[i][2] = "ok" => i = Len(tried) /\ call.outcome = "returned"
       /\ (~CallEnded) => AwaitedBackend(call) = ready[Len(tried) + 1]
       /\ call.outcome = "returned" =>
            /\ call.tried[Len(tried)] = <<call.result.backend, "ok">>
            /\ engine.activeBackend = call.result.backend

\* A later call is served by http although a lower backend served the call
\* before it.
C14_Witness ==
  /\ call.id > 1
  /\ call.atStart.activeBackend \in {"llama", "ruvllm", "mock"}
  /\ call.outcome = "returned"
  /\ call.result.backend = "http"
  /\ engine.activeBackend = "http"

\* C15: once the failure count has reached httpCircuitFailureThreshold the
\* circuit is not closed, and a call that starts before nextAttemptAt issues
\* no wire request, fails its http step with "circuit open" and, unless it
\* is cancelled, is served by a lower-priority backend.
C15_OpenCircuitShortCircuits ==
  /\ engine.httpCircuit.consecutiveFailures >= Threshold =>
       engine.httpCircuit.state # "closed"
  /\ ( /\ call.pc # "idle"
       /\ engine.backendReady["http"]
       /\ call.atStart.consecutiveFailures >= Threshold
       /\ call.atStart.now < OrZero(call.atStart.nextAttemptAt) ) =>
       /\ call.hits = 0
       /\ call.tried # <<>>
       /\ call.tried[1] = <<"http", "circuit_open">>
       /\ (CallEnded /\ ~call.aborted) =>
            /\ call.outcome = "returned"
            /\ call.result.backend \in {"llama", "ruvllm", "mock"}

\* The third call of the circuit test: two failed calls without retries
\* opened the circuit, the next one is served without a wire request.
C15_Witness ==
  /\ engine.config.httpMaxRetries = 0
  /\ Threshold = 2
  /\ call.id = Threshold + 1
  /\ call.atStart.consecutiveFailures = Threshold
  /\ call.atStart.now < OrZero(call.atStart.nextAttemptAt)
  /\ call.hits = 0
  /\ call.outcome = "returned"

C17_NoWireWhileOpen ==
  call.pc = "http_fetch" => ~CircuitBlocksAt(engine.httpCircuit, now)

\* A failure is recorded while the circuit is half_open.
HalfOpenFailureStep ==
  /\ engine.httpCircuit.state = "half_open"
  /\ engine'.httpCircuit.consecutiveFailures = engine.httpCircuit.consecutiveFailures + 1

\* C18: a failed half_open probe leaves the circuit open with openedAt the
\* time of the failure and nextAttemptAt that time plus
\* httpCircuitCooldownMs, so that an attempt is refused up to the last
\* instant before it and let through from it on.
C18_FailedProbeReopens ==
  [][HalfOpenFailureStep =>
       /\ engine'.httpCircuit.state = "open"
       /\ engine'.httpCircuit.openedAt = <<now>>
       /\ engine'.httpCircuit.nextAttemptAt = <<now + engine.config.httpCircuitCooldownMs>>
       /\ ensureHttpCircuitAllowsAttempt(
             engine', now + engine.config.httpCircuitCooldownMs - 1).threw
       /\ ~ensureHttpCircuitAllowsAttempt(
              engine', now + engine.config.httpCircuitCooldownMs).threw]_vars

\* The probe of a call failed: the call went on to a lower backend and left
\* the circuit open for a cooldown counted from the failure.
C18_Witness ==
  /\ call.probe
  /\ call.probeFailedAt # Undefined
  /\ call.atStart.state = "open"
  /\ call.outcome = "returned"
  /\ call.result.backend # "http"
  /\ engine.httpCircuit.state = "open"
  /\ engine.httpCircuit.nextAttemptAt =
       <<OrZero(call.probeFailedAt) + engine.config.httpCircuitCooldownMs>>

\* C19: one generate call records at most one failure on the circuit.
C19_OneFailurePerCall == call.recorded <= 1

\* C20: after a non-retryable failure the call issues no further wire
\* request.
C20_NonRetryableFailsFast ==
  call.failFastAt # 0 => call.hits = call.failFastAt
C22_FallbackOutputRejected ==
  (call.sawFallback /\ CallEnded) =>
     /\ call.result.backend # "ruvllm"
     /\ ~engine.backendReady["ruvllm"]
\* C38: the fields of the circuit agree with its state. Closed: fewer
\* consecutive failures than the threshold. Open: at least the threshold,
\* openedAt set, and nextAttemptAt = openedAt + httpCircuitCooldownMs.
C38_CircuitStateConsistent ==
  /\ engine.httpCircuit.state = "closed" =>
       engine.httpCircuit.consecutiveFailures < Threshold
  /\ engine.httpCircuit.state = "open" =>
       /\ engine.httpCircuit.consecutiveFailures >= Threshold
       /\ engine.httpCircuit.openedAt # Undefined
       /\ engine.httpCircuit.nextAttemptAt =
            <<OrZero(engine.httpCircuit.openedAt) + engine.config.httpCircuitCooldownMs>>

\* The circuit was opened again, later than the start of the run, with more
\* failures than the threshold.
C38_Witness ==
  /\ engine.httpCircuit.state = "open"
  /\ engine.httpCircuit.consecutiveFailures > Threshold
  /\ OrZero(engine.httpCircuit.openedAt) > 0

\* The signal of the task is tripped while an HTTP try is on the wire.
AbortsInFlightTry ==
  /\ call.pc = "http_fetch"
  /\ ~call.aborted
  /\ call'.aborted

\* C39: a task cancellation or timeout that interrupts an HTTP try on the wire
\* is not recorded as an HTTP failure: the circuit keeps its state and its
\* count of consecutive failures, the try is not retried, and the call
\* rejects with the reason of the task.
C39_AbortIsNotAFailure ==
  [][AbortsInFlightTry =>
       /\ engine'.httpCircuit = engine.httpCircuit
       /\ call'.recorded = call.recorded
       /\ call'.attempt = call.attempt
       /\ call'.pc = "done"
       /\ call'.outcome = "rejected"]_vars

\* C40: half_open is transient. Whenever no generate call is in progress the
\* circuit is closed or open, also after a probing call that was cut short by
\* the cancellation of its task.
C40_HalfOpenIsTransient ==
  ~Running => engine.httpCircuit.state \in {"closed", "open"}

\* ------------------------------------------------------------------------
\* Properties of the pattern memory
\* ------------------------------------------------------------------------
\* The settled tasks that were picked by worker w.
SettledOn(w) == {t \in DOMAIN pool.item : pool.item[t].worker = w /\ pool.item[t].settled}

\* C23: every task picked by a worker has updated that worker's pattern
\* memory, and no other, exactly once when it has settled, whichever way it
\* settled: each worker's interaction count is the number of settled tasks
\* it was given.
C23_MemoryUpdatedOncePerTask ==
  \A w \in DOMAIN pool.node :
     pool.node[w].sonaInteractions = Cardinality(SettledOn(w))

\* A step in which recordInteraction ran a consolidation sweep.
ConsolidationStep ==
  /\ ~sona'.fresh
  /\ sona'.consolidations = sona.consolidations + 1

\* C24: immediately after a consolidation sweep the memory holds at most
\* MAX_PATTERNS patterns, and every pattern evicted for the ceiling was no
\* stronger (0.7 score + 0.3 importance) than any pattern that was kept.
C24_ConsolidationBoundsMemory ==
  [][ConsolidationStep =>
       /\ Len(sona'.patterns) <= MAX_PATTERNS
       /\ sona'.evicted > 0 =>
            \A i \in 1..Len(sona'.patterns) :
               Strength(sona'.patterns[i]) >= sona'.evictedMax]_vars

\* A sweep has evicted patterns for the ceiling and left the memory full.
C24_Witness ==
  /\ sona.consolidations > 0
  /\ sona.evicted > 0
  /\ Len(sona.patterns) = MAX_PATTERNS

\* C25: in every state of a worker's memory, after loading a state file and
\* after every recordInteraction, the memory holds at most MAX_PATTERNS
\* patterns.
C25_CountNeverExceedsCeiling == Len(sona.patterns) <= MAX_PATTERNS

\* A step of recordInteraction on an enabled memory.
RecordStep ==
  /\ ~sona'.fresh
  /\ sona'.interactions = sona.interactions + 1

\* Key is held by the Map.
Has(patterns, key) == \E i \in 1..Len(patterns) : patterns[i].key = key

\* C26: an update with success never lowers the importance of its pattern
\* (a new pattern starts from 0.2) and never takes it above 0.99.
C26_ImportanceMonotoneUnderSuccess ==
  [][RecordStep /\ sona'.touchedWith =>
       \A k \in 1..Len(sona'.touched) :
          Has(sona'.patterns, sona'.touched[k]) =>
            /\ PatternOf(sona'.patterns, sona'.touched[k]).importance <= Fixed(99, 100)
            /\ PatternOf(sona'.patterns, sona'.touched[k]).importance >=
                 (IF Has(sona.patterns, sona'.touched[k])
                  THEN PatternOf(sona.patterns, sona'.touched[k]).importance
                  ELSE Fixed(2, 10))]_vars

\* A pattern has been fed two successes in a row and sits at the ceiling.
C26_Witness ==
  /\ ~sona.fresh
  /\ sona.ops = 2
  /\ sona.successes >= 2
  /\ \E i \in 1..Len(sona.patterns) :
       /\ sona.patterns[i].importance = Fixed(99, 100)
       /\ sona.patterns[i].successes >= 7

\* What a new SonaEngine for the same worker would hold if it were
\* constructed on the state file as it is after this step.
Reloaded == loadStateFromDisk(NewSona(sona'.options), disk')

\* The worker was restarted on a state file that flush had written.
RestartOnFlushed ==
  /\ sona'.restarts = sona.restarts + 1
  /\ sona.options.enabled /\ sona.options.stateFile
  /\ disk.kind = "json" /\ disk.written

\* C27: a state file written by flush, loaded by a new SonaEngine of the same
\* worker, gives back the counters and the patterns (key, score, importance,
\* hits, successes) of the memory that wrote it; a restart on such a file
\* holds at least the interactions and the patterns last persisted.
C27_PersistenceRoundTrip ==
  [][(disk' # disk =>
        /\ Reloaded.interactions = sona'.interactions
        /\ Reloaded.successes = sona'.successes
        /\ Reloaded.consolidations = sona'.consolidations
        /\ Reloaded.patterns = sona'.patterns)
     /\ (RestartOnFlushed =>
           /\ sona'.interactions >= disk.interactions
           /\ Len(sona'.patterns) >= Len(disk.patterns))]_vars

\* A worker restarted on a file flushed after successful interactions holds
\* what the file holds.
C27_Witness ==
  /\ sona.fresh /\ sona.restarts = 1
  /\ disk.kind = "json" /\ disk.written
  /\ sona.successes > 0
  /\ sona.interactions = disk.interactions
  /\ Len(sona.patterns) > 0
  /\ Len(sona.patterns) = Len(disk.patterns)

\* C28: every pattern of the memory has score in [0.01, 1], importance in
\* [0.05, 0.99], hits >= 0 and successes >= 0, after any updates and right
\* after a load.
C28_PatternsInLegalRanges ==
  \A i \in 1..Len(sona.patterns) :
     /\ sona.patterns[i].score >= Fixed(1, 100)
     /\ sona.patterns[i].score <= Fixed(1, 1)
     /\ sona.patterns[i].importance >= Fixed(5, 100)
     /\ sona.patterns[i].importance <= Fixed(99, 100)
     /\ sona.patterns[i].hits >= 0
     /\ sona.patterns[i].successes >= 0

\* The memory is as its constructor left it, on the state file it read.
JustLoaded == sona.fresh /\ sona.options.enabled /\ sona.options.stateFile

\* The keys of the well-formed records of the state file.
WellFormedKeys ==
  {disk.patterns[i].key : i \in {i \in 1..Len(disk.patterns) : WellFormed(disk.patterns[i])}}

\* C29: a load has two outcomes only. A file that is missing, unparsable, of
\* another version or without a patterns array leaves the memory empty;
\* otherwise every well-formed record of the file is loaded, whatever
\* malformed entries stand before it.
C29_LoadIsAllOrNothing ==
  JustLoaded =>
    IF Acceptable(disk)
    THEN /\ Keys(sona.patterns) = WellFormedKeys
         /\ Len(sona.patterns) = Cardinality(WellFormedKeys)
    ELSE /\ sona.patterns = <<>>
         /\ sona.interactions = 0
         /\ sona.successes = 0
         /\ sona.consolidations = 0


====
